---- MODULE Spec2Model ----
(***************************************************************************)
(* Model of the chat handler of bf_traveler:                               *)
(*   src/lambda/chat_handler/lambda_function.py  (lambda_handler and its   *)
(*   helpers) and src/lambda/chat_handler/tools.py (get_country_info).     *)
(*                                                                         *)
(* Python values are tagged records.  A str is either a text (a run-length *)
(* encoded sequence of symbols, so that the 1000-character limit is        *)
(* reachable) or a document (a str whose characters spell a sequence of    *)
(* JSON tokens).  A dict is an ordered sequence of key/value pairs.        *)
(* A call either returns or raises: Ok(v) / Raise(type, msg).              *)
(***************************************************************************)
EXTENDS Integers, Sequences, FiniteSets, TLC

(***************************************************************************)
(* Bounds of the model.                                                    *)
(***************************************************************************)
MaxPad == 1          \* whitespace runs around a message are 0..MaxPad long
MaxRequests == 2     \* handler invocations alive in one process
MaxToolCalls == 1    \* tool calls the agent makes while answering one request
MaxClock == 1        \* values time.time() may take

(***************************************************************************)
(* Texts: sequences of runs [c |-> symbol, n |-> repetitions].  The        *)
(* whitespace symbols are the ones str.strip() removes; every other symbol *)
(* stands for non-whitespace text.  No run is empty and neighbouring runs  *)
(* carry different symbols, so equal texts have equal encodings.           *)
(***************************************************************************)
Whitespace == {" ", "\t", "\n"}

Run(c, n) == IF n = 0 THEN <<>> ELSE <<[c |-> c, n |-> n]>>

T(word) == <<[c |-> word, n |-> 1]>>

Concat(a, b) ==
    IF a = <<>> THEN b
    ELSE IF b = <<>> THEN a
    ELSE IF a[Len(a)].c = b[1].c
         THEN SubSeq(a, 1, Len(a) - 1)
              \o <<[c |-> b[1].c, n |-> a[Len(a)].n + b[1].n]>>
              \o Tail(b)
         ELSE a \o b

RECURSIVE len(_)
len(s) == IF s = <<>> THEN 0 ELSE Head(s).n + len(Tail(s))

RECURSIVE lstrip(_)
lstrip(s) ==
    IF s = <<>> THEN <<>>
    ELSE IF Head(s).c \in Whitespace THEN lstrip(Tail(s)) ELSE s

RECURSIVE rstrip(_)
rstrip(s) ==
    IF s = <<>> THEN <<>>
    ELSE IF s[Len(s)].c \in Whitespace THEN rstrip(SubSeq(s, 1, Len(s) - 1)) ELSE s

\* mutant of strip: nothing is removed
NoStrip(s) == s

strip(s) == rstrip(lstrip(s))

(***************************************************************************)
(* Python values.                                                          *)
(***************************************************************************)
None == [kind |-> "null"]
PyBool(b) == [kind |-> "bool", b |-> b]
PyInt(n) == [kind |-> "num", n |-> n]
PyStr(s) == [kind |-> "str", s |-> s]
PyList(a) == [kind |-> "arr", a |-> a]
PyDict(o) == [kind |-> "obj", o |-> o]
\* A str holding a document: text is the token sequence its characters
\* spell, b64 is what base64-decoding those characters gives.
PyDoc(text, b64) == [kind |-> "doc", text |-> text, b64 |-> b64]

Pair(k, v) == [k |-> k, v |-> v]

IsStr(v) == v.kind \in {"str", "doc"}
IsDict(v) == v.kind = "obj"

\* bool(v)
Truthy(v) ==
    CASE v.kind = "null" -> FALSE
      [] v.kind = "bool" -> v.b
      [] v.kind = "num" -> v.n # 0
      [] v.kind = "str" -> v.s # <<>>
      [] v.kind = "doc" -> v.text # <<>>
      [] v.kind = "arr" -> v.a # <<>>
      [] v.kind = "obj" -> v.o # <<>>

HasKey(o, k) == \E i \in 1..Len(o) : o[i].k = k

Lookup(o, k) == o[CHOOSE i \in 1..Len(o) : o[i].k = k].v

\* d[k] = v on a dict: a new key goes last, an old key keeps its place
DictSet(o, k, v) ==
    IF HasKey(o, k)
    THEN [i \in 1..Len(o) |-> IF o[i].k = k THEN Pair(k, v) ELSE o[i]]
    ELSE Append(o, Pair(k, v))

(***************************************************************************)
(* Calls: a call returns Ok(v) or raises Raise(type, msg).                 *)
(***************************************************************************)
Ok(v) == [ok |-> TRUE, val |-> v]
Raise(type, msg) == [ok |-> FALSE, exc |-> [type |-> type, msg |-> msg]]

\* the exception classes that occur, and which of them `except ValueError`
\* and `except Exception` catch
ValueErrorClasses ==
    {"ValueError", "JSONDecodeError", "UnicodeDecodeError", "binascii.Error"}
RequestExceptionClasses == {"ConnectionError", "Timeout", "HTTPError"}
ExceptionClasses ==
    ValueErrorClasses \cup RequestExceptionClasses
    \cup {"AttributeError", "TypeError", "RuntimeError"}

IsValueError(e) == e.type \in ValueErrorClasses
IsException(e) == e.type \in ExceptionClasses

\* obj.get(key, default): dict.get on a dict, AttributeError on anything else
Get(obj, key, default) ==
    IF IsDict(obj)
    THEN Ok(IF HasKey(obj.o, key) THEN Lookup(obj.o, key) ELSE default)
    ELSE Raise("AttributeError", T("object has no attribute 'get'"))

(***************************************************************************)
(* JSON text: a sequence of tokens.  json_loads is json.loads (a recursive *)
(* descent over the tokens), json_dumps is json.dumps.                     *)
(***************************************************************************)
TPunct(p) == [t |-> p]
TStr(s) == [t |-> "str", s |-> s]
TNum(n) == [t |-> "num", n |-> n]
TJunk == [t |-> "junk"]

POk(v, next) == [ok |-> TRUE, val |-> v, next |-> next]
PErr(why, at) == [ok |-> FALSE, why |-> why, at |-> at]

RECURSIVE ParseValue(_, _)
RECURSIVE ParseMembers(_, _, _)
RECURSIVE ParseElements(_, _, _)

\* the members of an object after "{" or after ",": "key" : value
ParseMembers(toks, i, acc) ==
    IF i > Len(toks) \/ toks[i].t # "str"
    THEN PErr("Expecting property name enclosed in double quotes", i)
    ELSE IF i + 1 > Len(toks) \/ toks[i + 1].t # ":"
    THEN PErr("Expecting ':' delimiter", i + 1)
    ELSE LET v == ParseValue(toks, i + 2) IN
         IF ~v.ok THEN v
         ELSE LET acc2 == DictSet(acc, toks[i].s, v.val) IN
              IF v.next > Len(toks) THEN PErr("Expecting ',' delimiter", v.next)
              ELSE IF toks[v.next].t = "}" THEN POk(PyDict(acc2), v.next + 1)
              ELSE IF toks[v.next].t = "," THEN ParseMembers(toks, v.next + 1, acc2)
              ELSE PErr("Expecting ',' delimiter", v.next)

\* the elements of an array after "[" or after ","
ParseElements(toks, i, acc) ==
    LET v == ParseValue(toks, i) IN
    IF ~v.ok THEN v
    ELSE LET acc2 == Append(acc, v.val) IN
         IF v.next > Len(toks) THEN PErr("Expecting ',' delimiter", v.next)
         ELSE IF toks[v.next].t = "]" THEN POk(PyList(acc2), v.next + 1)
         ELSE IF toks[v.next].t = "," THEN ParseElements(toks, v.next + 1, acc2)
         ELSE PErr("Expecting ',' delimiter", v.next)

ParseValue(toks, i) ==
    IF i > Len(toks) THEN PErr("Expecting value", i)
    ELSE LET tk == toks[i] IN
         CASE tk.t = "str" -> POk(PyStr(tk.s), i + 1)
           [] tk.t = "num" -> POk(PyInt(tk.n), i + 1)
           [] tk.t = "true" -> POk(PyBool(TRUE), i + 1)
           [] tk.t = "false" -> POk(PyBool(FALSE), i + 1)
           [] tk.t = "null" -> POk(None, i + 1)
           [] tk.t = "{" ->
                IF i + 1 <= Len(toks) /\ toks[i + 1].t = "}"
                THEN POk(PyDict(<<>>), i + 2)
                ELSE ParseMembers(toks, i + 1, <<>>)
           [] tk.t = "[" ->
                IF i + 1 <= Len(toks) /\ toks[i + 1].t = "]"
                THEN POk(PyList(<<>>), i + 2)
                ELSE ParseElements(toks, i + 1, <<>>)
           [] OTHER -> PErr("Expecting value", i)

\* json.loads(s)
json_loads(s) ==
    IF ~IsStr(s)
    THEN Raise("TypeError", T("the JSON object must be str, bytes or bytearray"))
    ELSE IF s.kind = "str"
    THEN Raise("JSONDecodeError", T("Expecting value"))
    ELSE LET r == ParseValue(s.text, 1) IN
         IF ~r.ok THEN Raise("JSONDecodeError", T(r.why))
         ELSE IF r.next <= Len(s.text) THEN Raise("JSONDecodeError", T("Extra data"))
         ELSE Ok(r.val)

RECURSIVE DumpValue(_)
RECURSIVE DumpMembers(_, _)
RECURSIVE DumpElements(_, _)

DumpMembers(o, i) ==
    IF i > Len(o) THEN <<>>
    ELSE (IF i > 1 THEN <<TPunct(",")>> ELSE <<>>)
         \o <<TStr(o[i].k), TPunct(":")>> \o DumpValue(o[i].v)
         \o DumpMembers(o, i + 1)

DumpElements(a, i) ==
    IF i > Len(a) THEN <<>>
    ELSE (IF i > 1 THEN <<TPunct(",")>> ELSE <<>>)
         \o DumpValue(a[i]) \o DumpElements(a, i + 1)

DumpValue(v) ==
    CASE v.kind = "null" -> <<TPunct("null")>>
      [] v.kind = "bool" -> <<TPunct(IF v.b THEN "true" ELSE "false")>>
      [] v.kind = "num" -> <<TNum(v.n)>>
      [] v.kind = "str" -> <<TStr(v.s)>>
      [] v.kind = "obj" -> <<TPunct("{")>> \o DumpMembers(v.o, 1) \o <<TPunct("}")>>
      [] v.kind = "arr" -> <<TPunct("[")>> \o DumpElements(v.a, 1) \o <<TPunct("]")>>

\* what base64-decoding a str gives
B64Invalid == [r |-> "binascii.Error"]
B64NotUtf8 == [r |-> "bytes", utf8 |-> FALSE]
B64Text(toks) == [r |-> "bytes", utf8 |-> TRUE, text |-> toks]

\* json.dumps(obj): JSON text is not base64 (it holds quotes and braces)
json_dumps(v) == PyDoc(DumpValue(v), B64Invalid)

(***************************************************************************)
(* lambda_function.py: the helpers of lambda_handler.                      *)
(***************************************************************************)
MAX_MESSAGE_LENGTH == 1000

\* base64.b64decode(body).decode("utf-8")
b64decode_utf8(body) ==
    IF ~IsStr(body)
    THEN Raise("TypeError", T("argument should be a bytes-like object or ASCII string"))
    ELSE IF body.kind = "str" \/ body.b64.r = "binascii.Error"
    THEN Raise("binascii.Error", T("Incorrect padding"))
    ELSE IF ~body.b64.utf8
    THEN Raise("UnicodeDecodeError", T("'utf-8' codec can't decode byte"))
    ELSE Ok(PyDoc(body.b64.text, B64Invalid))

\* the str "{}": as base64 it holds no character of the alphabet and decodes
\* to the empty text
EmptyObjectText == PyDoc(<<TPunct("{"), TPunct("}")>>, B64Text(<<>>))

extract_user_info(event) ==
    LET request_context == Get(event, T("requestContext"), PyDict(<<>>)) IN
    IF ~request_context.ok THEN request_context
    ELSE LET authorizer == Get(request_context.val, T("authorizer"), PyDict(<<>>)) IN
    IF ~authorizer.ok THEN authorizer
    ELSE LET claims == Get(authorizer.val, T("claims"), PyDict(<<>>)) IN
    IF ~claims.ok THEN claims
    ELSE LET username == Get(claims.val, T("cognito:username"), PyStr(T("Unknown")))
             email == Get(claims.val, T("email"), PyStr(T("unknown@example.com")))
             sub == Get(claims.val, T("sub"), PyStr(T("unknown-sub")))
         IN
         IF ~username.ok THEN username
         ELSE Ok(PyDict(<<Pair(T("username"), username.val),
                          Pair(T("email"), email.val),
                          Pair(T("sub"), sub.val)>>))

parse_request_body(event) ==
    LET body == Get(event, T("body"), EmptyObjectText) IN
    IF ~body.ok THEN body
    ELSE LET flag == Get(event, T("isBase64Encoded"), PyBool(FALSE))
             decoded == IF Truthy(flag.val) THEN b64decode_utf8(body.val) ELSE body
         IN
         IF ~decoded.ok THEN decoded
         ELSE LET loaded == json_loads(decoded.val) IN
              IF ~loaded.ok /\ loaded.exc.type = "JSONDecodeError"
              THEN Raise("ValueError",
                         Concat(T("Invalid JSON in request body: "), loaded.exc.msg))
              ELSE loaded

\* mutant of validate_message: the length is not checked
validate_message_unbounded(body) ==
    LET field == Get(body, T("message"), PyStr(<<>>)) IN
    IF ~field.ok THEN field
    ELSE IF field.val.kind # "str"
    THEN Raise("AttributeError", T("object has no attribute 'strip'"))
    ELSE LET message == strip(field.val.s) IN
         IF message = <<>>
         THEN Raise("ValueError", T("Message cannot be empty"))
         ELSE Ok(PyStr(message))

validate_message(body) ==
    LET field == Get(body, T("message"), PyStr(<<>>)) IN
    IF ~field.ok THEN field
    ELSE IF field.val.kind # "str"
    THEN Raise("AttributeError", T("object has no attribute 'strip'"))
    ELSE LET message == strip(field.val.s) IN
         IF message = <<>>
         THEN Raise("ValueError", T("Message cannot be empty"))
         ELSE IF len(message) > MAX_MESSAGE_LENGTH
         THEN Raise("ValueError", T("Message too long (max 1000 characters)"))
         ELSE Ok(PyStr(message))

CorsHeaders ==
    [ContentType |-> "application/json",
     AccessControlAllowOrigin |-> "*",
     AccessControlAllowHeaders |->
        "Content-Type,X-Amz-Date,Authorization,X-Api-Key,X-Amz-Security-Token",
     AccessControlAllowMethods |-> "POST,OPTIONS"]

create_response(status_code, body) ==
    [statusCode |-> status_code, headers |-> CorsHeaders, body |-> json_dumps(body)]

\* mutant of SuccessBody: the agent's text is trimmed
SuccessBodyStripped(response_message, now, user_info) ==
    PyDict(<<Pair(T("success"), PyBool(TRUE)),
             Pair(T("message"), PyStr(strip(response_message.text))),
             Pair(T("timestamp"), PyInt(now)),
             Pair(T("user"), Get(user_info, T("username"), PyStr(T("Unknown"))).val)>>)

\* the payload of the successful response, lambda_handler's return statement
SuccessBody(response_message, now, user_info) ==
    PyDict(<<Pair(T("success"), PyBool(TRUE)),
             Pair(T("message"), PyStr(response_message.text)),
             Pair(T("timestamp"), PyInt(now)),
             Pair(T("user"), Get(user_info, T("username"), PyStr(T("Unknown"))).val)>>)

ErrorBody(error) ==
    PyDict(<<Pair(T("success"), PyBool(FALSE)), Pair(T("error"), PyStr(error))>>)

\* mutant of HandleException: no `except Exception` clause
HandleValueErrorOnly(e) ==
    IF IsValueError(e)
    THEN [caught |-> TRUE,
          logged |-> Concat(T("Validation error: "), e.msg),
          returned |-> create_response(400, ErrorBody(e.msg))]
    ELSE [caught |-> FALSE]

\* the except clauses of lambda_handler: what the handler does with an
\* exception e raised in its try block.  "returned" is the response,
\* "logged" the line written to the server log.
HandleException(e) ==
    IF IsValueError(e)
    THEN [caught |-> TRUE,
          logged |-> Concat(T("Validation error: "), e.msg),
          returned |-> create_response(400, ErrorBody(e.msg))]
    ELSE IF IsException(e)
    THEN [caught |-> TRUE,
          logged |-> Concat(T("Unexpected error: "), e.msg),
          returned |-> create_response(500, ErrorBody(T("Internal server error")))]
    ELSE [caught |-> FALSE]

(***************************************************************************)
(* tools.py: get_country_info.  The remote site's answer to one GET is     *)
(* either a transport error or a response with a status code and a page;   *)
(* of the page only the div with id "securite" matters: absent, or the     *)
(* strings it holds.                                                       *)
(***************************************************************************)
TransportError(type) == [kind |-> "error", type |-> type]
HttpResponse(status_code, securite) ==
    [kind |-> "response", status_code |-> status_code, securite |-> securite]
NoSection == [present |-> FALSE]
Section(strings) == [present |-> TRUE, strings |-> strings]

LogLine(level, msg) == [level |-> level, msg |-> msg]

LowerSymbol(c) ==
    CASE c = "Mali" -> "mali"
      [] c = "NIGER" -> "niger"
      [] OTHER -> c

\* str.lower()
lower(s) == [i \in 1..Len(s) |-> [c |-> LowerSymbol(s[i].c), n |-> s[i].n]]

BaseUrl ==
    T("https://www.diplomatie.gouv.fr/fr/conseils-aux-voyageurs/conseils-par-pays-destination/")

\* requests.get(full_url, headers=...)
requests_get(remote) ==
    IF remote.kind = "error"
    THEN Raise(remote.type, T("transport error"))
    ELSE Ok(remote)

\* response.raise_for_status(): raises for bad status codes (4xx or 5xx)
raise_for_status(response) ==
    IF response.status_code >= 400 /\ response.status_code < 600
    THEN Raise("HTTPError", T("bad status code"))
    ELSE Ok(None)

\* mutant of CatchesRequestException: only the bad status is caught
CatchesOnlyHTTPError(e) == e.type = "HTTPError"

\* except requests.exceptions.RequestException
CatchesRequestException(e) == e.type \in RequestExceptionClasses

\* soup.find("div", id="securite")
FindSecurite(response) == response.securite

\* bool(security_section): None is false, a Tag is true whatever it holds
SectionFound(security_section) == security_section.present

\* Tag.get_text(separator="\n", strip=True): the stripped, non-empty strings
\* of the tag, joined by the separator
RECURSIVE get_text(_)
get_text(strings) ==
    IF strings = <<>> THEN <<>>
    ELSE LET first == strip(Head(strings))
             rest == get_text(Tail(strings))
         IN
         IF first = <<>> THEN rest
         ELSE IF rest = <<>> THEN first
         ELSE Concat(Concat(first, Run("\n", 1)), rest)

\* mutant of FetchFailedResult: an empty str instead of None
FetchFailedEmptyStr == Ok(PyStr(<<>>))

\* what get_country_info gives back when the fetch fails
FetchFailedResult == Ok(None)

\* what it gives back when the page has no "securite" div
NotFoundResult == Ok(None)

FetchFailedLevel == "ERROR"

NotFoundLevel == "WARNING"

\* one call of the tool: its outcome (returned value or raised exception)
\* and the log lines it wrote
get_country_info(country_name_in_french, remote) ==
    LET full_url == Concat(BaseUrl, lower(country_name_in_french.s))
        fetching == LogLine("INFO", Concat(T("Fetching data from: "), full_url))
        response == requests_get(remote)
        checked == IF response.ok THEN raise_for_status(response.val) ELSE response
    IN
    IF ~checked.ok
    THEN IF CatchesRequestException(checked.exc)
         THEN [outcome |-> FetchFailedResult,
               log |-> <<fetching,
                         LogLine(FetchFailedLevel,
                                 Concat(T("Error fetching the URL: "), checked.exc.msg))>>]
         ELSE [outcome |-> checked, log |-> <<fetching>>]
    ELSE LET security_section == FindSecurite(response.val) IN
         IF SectionFound(security_section)
         THEN [outcome |-> Ok(PyStr(get_text(security_section.strings))),
               log |-> <<fetching>>]
         ELSE [outcome |-> NotFoundResult,
               log |-> <<fetching,
                         LogLine(NotFoundLevel,
                                 T("'securite' section not found on the page."))>>]

(***************************************************************************)
(* The inputs: the events the handler may be given, what the agent may     *)
(* answer, what the remote site may answer.                                *)
(***************************************************************************)
Absent == [kind |-> "absent"]

\* a dict entry, or none when the key is absent
Opt(k, v) == IF v = Absent THEN <<>> ELSE <<Pair(T(k), v)>>

\* the message texts by what is left of them once trimmed
ValidCores ==
    {Run("a", 1),
     Concat(Concat(Run("a", 1), Run(" ", 1)), Run("b", 1)),
     Run("a", 999),
     Run("a", 1000)}

LongCores == {Run("a", 1001), Run("b", 2000)}

Pad(l, core, t) == Concat(Concat(Run(" ", l), core), Run("\n", t))

Pads == 0..MaxPad

BlankMessages == {Pad(l, <<>>, t) : l \in Pads, t \in Pads} \cup {Run(" ", 1001)}

ValidMessages == {Pad(l, core, t) : l \in Pads, t \in Pads, core \in ValidCores}

LongMessages == {Pad(l, core, t) : l \in Pads, t \in Pads, core \in LongCores}

Messages == BlankMessages \cup ValidMessages \cup LongMessages

ObjectText(key, valueTokens) ==
    <<TPunct("{"), TStr(T(key)), TPunct(":")>> \o valueTokens \o <<TPunct("}")>>

MessageText(m) == ObjectText("message", <<TStr(m)>>)

MessageTexts == {MessageText(m) : m \in Messages}

\* JSON objects without a message
NoMessageTexts ==
    {<<TPunct("{"), TPunct("}")>>,
     ObjectText("text", <<TStr(T("hello"))>>)}

\* JSON objects whose message is no str
BadMessageTexts ==
    {ObjectText("message", <<TPunct("null")>>),
     ObjectText("message", <<TNum(5)>>),
     ObjectText("message", <<TPunct("["), TStr(T("hello")), TPunct("]")>>)}

\* JSON that is no object
NonObjectTexts ==
    {<<TPunct("["), TPunct("]")>>,
     <<TPunct("null")>>,
     <<TNum(5)>>,
     <<TStr(T("hello"))>>}

\* text that is no JSON
NotJsonTexts ==
    {<<>>,
     <<TJunk>>,
     <<TPunct("{"), TStr(T("message")), TPunct(":")>>,
     MessageText(T("hello")) \o <<TPunct("}")>>}

BodyTexts ==
    MessageTexts \cup NoMessageTexts \cup BadMessageTexts \cup NonObjectTexts
    \cup NotJsonTexts

\* what base64-decoding a plain JSON text may give: b64decode drops the
\* characters outside the alphabet, so a text of braces and brackets
\* decodes to the empty text; any other is ill-padded or decodes to bytes
\* that are no UTF-8
PlainViews(text) ==
    IF \A i \in 1..Len(text) : text[i].t \in {"{", "}", "[", "]", ":", ","}
    THEN {B64Text(<<>>)}
    ELSE {B64Invalid, B64NotUtf8}

PlainBody(text, view) == PyDoc(text, view)
EncodedBody(text) == PyDoc(<<TJunk>>, B64Text(text))
BinaryBody == PyDoc(<<TJunk>>, B64NotUtf8)

PlainBodies == UNION {{PlainBody(t, v) : v \in PlainViews(t)} : t \in BodyTexts}

BodyOpts ==
    {Absent, None, BinaryBody}
    \cup PlainBodies
    \cup {EncodedBody(t) : t \in BodyTexts}

FlagOpts == {Absent, PyBool(FALSE), PyBool(TRUE)}

Claims(username, email, sub) ==
    PyDict(Opt("cognito:username", username) \o Opt("email", email) \o Opt("sub", sub))

ClaimsOpts ==
    {Absent, None, PyStr(T("claims")),
     Claims(Absent, Absent, Absent),
     Claims(PyStr(T("alice")), Absent, Absent),
     Claims(PyStr(T("bob")), PyStr(T("bob@example.com")), PyStr(T("sub-bob"))),
     Claims(PyStr(<<>>), Absent, Absent),
     Claims(None, Absent, Absent),
     Claims(Absent, PyStr(T("carol@example.com")), Absent)}

AuthorizerOpts == {Absent, None} \cup {PyDict(Opt("claims", c)) : c \in ClaimsOpts}

RequestContextOpts ==
    {Absent, None} \cup {PyDict(Opt("authorizer", a)) : a \in AuthorizerOpts}

Event(request_context, body, flag) ==
    PyDict(Opt("requestContext", request_context)
           \o Opt("body", body)
           \o Opt("isBase64Encoded", flag))

WithClaims(c) == PyDict(Opt("authorizer", PyDict(Opt("claims", c))))

Alice == Claims(PyStr(T("alice")), Absent, Absent)
Bob == Claims(PyStr(T("bob")), PyStr(T("bob@example.com")), PyStr(T("sub-bob")))

\* every request context with a few bodies, every body with a few request
\* contexts
FewRequestContexts == {Absent, None, WithClaims(Alice)}

FewBodies ==
    {<<PlainBody(MessageText(Run("a", 1)), B64Invalid), Absent>>,
     <<EncodedBody(MessageText(Pad(1, Run("a", 1000), 1))), PyBool(TRUE)>>,
     <<PlainBody(MessageText(<<>>), B64Invalid), PyBool(FALSE)>>,
     <<PlainBody(<<TPunct("["), TPunct("]")>>, B64Text(<<>>)), Absent>>}

Events ==
    {Event(rc, bf[1], bf[2]) : rc \in RequestContextOpts, bf \in FewBodies}
    \cup {Event(rc, b, f) : rc \in FewRequestContexts, b \in BodyOpts, f \in FlagOpts}

\* the events of the runs with several invocations alive
ConcEvents ==
    {Event(WithClaims(Alice), PlainBody(MessageText(Run("a", 1)), B64Invalid), Absent),
     Event(WithClaims(Bob), PlainBody(MessageText(Run("a", 1000)), B64Invalid), Absent),
     Event(WithClaims(Bob), PlainBody(MessageText(<<>>), B64Invalid), Absent)}

\* the agent's result object; str() of it is its text
AgentResult(text) == [text |-> text]

AgentResults ==
    {AgentResult(T("Travel to Mali is prohibited.")),
     AgentResult(Concat(Concat(Run(" ", 1), T("Travel is allowed.")), Run("\n", 1)))}

AgentFailures ==
    {[type |-> "RuntimeError", msg |-> T("model stream ended unexpectedly")],
     [type |-> "ValueError", msg |-> T("model identifier is not valid")],
     [type |-> "Timeout", msg |-> T("read timed out")]}

CountryNames == {PyStr(T("Mali")), PyStr(T("NIGER"))}

StatusCodes == {200, 300, 404, 500}

Sections ==
    {NoSection,
     Section(<<>>),
     Section(<<T("Vigilance renforcee")>>),
     Section(<<Concat(Run(" ", 1), T("Interdit")), Run("\n", 1), T("Risque faible")>>)}

Remotes ==
    {TransportError(t) : t \in {"ConnectionError", "Timeout"}}
    \cup {HttpResponse(c, sec) : c \in {200, 300}, sec \in Sections}
    \cup {HttpResponse(c, sec) : c \in {404, 500},
                                 sec \in {NoSection, Section(<<T("Vigilance renforcee")>>)}}

ConcRemotes == {TransportError("ConnectionError"), HttpResponse(200, NoSection)}

(***************************************************************************)
(* The process: the module-level agent configuration and, per invocation   *)
(* of lambda_handler, its position and its local variables.                *)
(***************************************************************************)
VARIABLES
    config,        \* model, system prompt and tools the agent was built with
    pc,            \* position of each invocation in lambda_handler
    event,         \* the event each invocation was given
    locals,        \* user_info, body, message of each invocation
    agent_arg,     \* what the invocation passed to agent(...)
    tool_calls,    \* tool calls the agent made for the invocation so far
    tool_frame,    \* the tool call in progress within the agent call
    raised,        \* the exception raised in the try block, and where
    responses,     \* the responses the invocation returned to its caller
    escaped,       \* whether an exception left lambda_handler
    server_log     \* the error lines the invocation logged

vars ==
    <<config, pc, event, locals, agent_arg, tool_calls, tool_frame, raised,
      responses, escaped, server_log>>

Requests == 1..MaxRequests

Clock == 0..MaxClock

Unset == [kind |-> "unset"]

NoLocals ==
    [user_info |-> Unset, body |-> Unset, message |-> Unset, response_message |-> Unset]

\* mutant of Scope: one frame shared by every invocation
SharedScope(r) == 1

\* the frame that holds an invocation's local variables: its own
Scope(r) == r

AgentConfig ==
    [model |-> "eu.amazon.nova-pro-v1:0",
     system_prompt |-> "MAIN_PROMPT",
     tools |-> <<"get_country_info">>]

Init ==
    /\ config = AgentConfig
    /\ pc = [r \in Requests |-> "idle"]
    /\ event = [r \in Requests |-> Unset]
    /\ locals = [r \in Requests |-> NoLocals]
    /\ agent_arg = [r \in Requests |-> Unset]
    /\ tool_calls = [r \in Requests |-> 0]
    /\ tool_frame = [r \in Requests |-> Unset]
    /\ raised = [r \in Requests |-> Unset]
    /\ responses = [r \in Requests |-> <<>>]
    /\ escaped = [r \in Requests |-> FALSE]
    /\ server_log = [r \in Requests |-> <<>>]

\* lambda_handler is called with one of the events
Receive(r, events) ==
    /\ pc[r] = "idle"
    /\ pc' = [pc EXCEPT ![r] = "extract"]
    /\ \E e \in events : event' = [event EXCEPT ![r] = e]
    /\ UNCHANGED <<config, locals, agent_arg, tool_calls, tool_frame, raised,
                   responses, escaped, server_log>>

\* the call of lambda_handler is over: its caller has the response (or the
\* exception) and its frame is gone; the process is ready for another call
Return(r) ==
    /\ pc[r] = "done"
    /\ pc' = [pc EXCEPT ![r] = "idle"]
    /\ event' = [event EXCEPT ![r] = Unset]
    /\ locals' = [locals EXCEPT ![Scope(r)] = NoLocals]
    /\ agent_arg' = [agent_arg EXCEPT ![r] = Unset]
    /\ tool_calls' = [tool_calls EXCEPT ![r] = 0]
    /\ tool_frame' = [tool_frame EXCEPT ![r] = Unset]
    /\ raised' = [raised EXCEPT ![r] = Unset]
    /\ responses' = [responses EXCEPT ![r] = <<>>]
    /\ escaped' = [escaped EXCEPT ![r] = FALSE]
    /\ server_log' = [server_log EXCEPT ![r] = <<>>]
    /\ UNCHANGED config

\* an exception e raised in the try block by the call `by`: the except
\* clauses run and the invocation ends
Fail(r, e, by) ==
    LET h == HandleException(e) IN
    /\ pc' = [pc EXCEPT ![r] = "done"]
    /\ raised' = [raised EXCEPT ![r] = [by |-> by, exc |-> e]]
    /\ IF h.caught
       THEN /\ responses' = [responses EXCEPT ![r] = Append(@, h.returned)]
            /\ server_log' = [server_log EXCEPT ![r] = Append(@, LogLine("ERROR", h.logged))]
            /\ UNCHANGED escaped
       ELSE /\ escaped' = [escaped EXCEPT ![r] = TRUE]
            /\ UNCHANGED <<responses, server_log>>

\* user_info = extract_user_info(event)
ExtractUser(r) ==
    /\ pc[r] = "extract"
    /\ \E res \in {extract_user_info(event[r])} :
       IF res.ok
       THEN /\ locals' = [locals EXCEPT ![Scope(r)].user_info = res.val]
            /\ pc' = [pc EXCEPT ![r] = "parse"]
            /\ UNCHANGED <<raised, responses, escaped, server_log>>
       ELSE /\ Fail(r, res.exc, "extract_user_info")
            /\ UNCHANGED locals
    /\ UNCHANGED <<config, event, agent_arg, tool_calls, tool_frame>>

\* body = parse_request_body(event)
ParseBody(r) ==
    /\ pc[r] = "parse"
    /\ \E res \in {parse_request_body(event[r])} :
       IF res.ok
       THEN /\ locals' = [locals EXCEPT ![Scope(r)].body = res.val]
            /\ pc' = [pc EXCEPT ![r] = "validate"]
            /\ UNCHANGED <<raised, responses, escaped, server_log>>
       ELSE /\ Fail(r, res.exc, "parse_request_body")
            /\ UNCHANGED locals
    /\ UNCHANGED <<config, event, agent_arg, tool_calls, tool_frame>>

\* message = validate_message(body), and on success the call agent(message)
\* begins
Validate(r) ==
    /\ pc[r] = "validate"
    /\ \E res \in {validate_message(locals[Scope(r)].body)} :
       IF res.ok
       THEN /\ locals' = [locals EXCEPT ![Scope(r)].message = res.val]
            /\ agent_arg' = [agent_arg EXCEPT ![r] = res.val]
            /\ pc' = [pc EXCEPT ![r] = "invoke"]
            /\ UNCHANGED <<raised, responses, escaped, server_log>>
       ELSE /\ Fail(r, res.exc, "validate_message")
            /\ UNCHANGED <<locals, agent_arg>>
    /\ UNCHANGED <<config, event, tool_calls, tool_frame>>

\* inside agent(message): the agent calls get_country_info; what the tool
\* raises comes out of the agent call
ToolCall(r, names, remotes) ==
    /\ pc[r] = "invoke"
    /\ tool_calls[r] < MaxToolCalls
    /\ \E name \in names, remote \in remotes :
       LET call == get_country_info(name, remote) IN
       /\ tool_calls' = [tool_calls EXCEPT ![r] = @ + 1]
       /\ tool_frame' = [tool_frame EXCEPT ![r] =
                            [input |-> name, remote |-> remote,
                             outcome |-> call.outcome, log |-> call.log]]
       /\ IF call.outcome.ok
          THEN UNCHANGED <<pc, raised, responses, escaped, server_log>>
          ELSE Fail(r, call.outcome.exc, "get_country_info")
    /\ UNCHANGED <<config, event, locals, agent_arg>>

\* response_message = agent(message) returns, and the handler returns the
\* successful response
AgentReturn(r, results, clock) ==
    /\ pc[r] = "invoke"
    /\ pc' = [pc EXCEPT ![r] = "done"]
    /\ tool_frame' = [tool_frame EXCEPT ![r] = Unset]
    /\ tool_calls' = [tool_calls EXCEPT ![r] = 0]
    /\ \E response_message \in results, now \in clock :
         /\ locals' = [locals EXCEPT ![Scope(r)].response_message = response_message]
         /\ responses' = [responses EXCEPT ![r] =
               Append(@, create_response(200,
                           SuccessBody(response_message, now, locals[Scope(r)].user_info)))]
    /\ UNCHANGED <<config, event, agent_arg, raised, escaped, server_log>>

\* agent(message) raises
AgentRaise(r, failures) ==
    /\ pc[r] = "invoke"
    /\ tool_frame' = [tool_frame EXCEPT ![r] = Unset]
    /\ tool_calls' = [tool_calls EXCEPT ![r] = 0]
    /\ \E e \in failures : Fail(r, e, "agent")
    /\ UNCHANGED <<config, event, locals, agent_arg>>

\* the steps of invocation r, its inputs drawn from the sets of `inputs`
Step(r, inputs) ==
    \/ Receive(r, inputs.events)
    \/ ExtractUser(r)
    \/ ParseBody(r)
    \/ Validate(r)
    \/ ToolCall(r, inputs.names, inputs.remotes)
    \/ AgentReturn(r, inputs.results, inputs.clock)
    \/ AgentRaise(r, inputs.failures)
    \/ Return(r)

AllInputs ==
    [events |-> Events, names |-> CountryNames, remotes |-> Remotes,
     results |-> AgentResults, failures |-> AgentFailures, clock |-> Clock]

\* one invocation at a time, over all the inputs
Next == Step(1, AllInputs)

Spec == Init /\ [][Next]_vars

\* several invocations alive at once, each over a few inputs
ConcInputs ==
    [events |-> ConcEvents, names |-> {PyStr(T("Mali"))}, remotes |-> ConcRemotes,
     results |-> {AgentResult(T("Travel to Mali is prohibited."))},
     failures |-> {[type |-> "RuntimeError", msg |-> T("model stream ended unexpectedly")]},
     clock |-> {0}]

NextConc == \E r \in Requests : Step(r, ConcInputs)

SpecConc == Init /\ [][NextConc]_vars

(***************************************************************************)
(* What the claims speak of.  A request is classified by the way its event *)
(* was built, not by running the handler's helpers on it.                  *)
(***************************************************************************)
Done(r) == pc[r] = "done"

Response(r) == responses[r][1]

\* the response body read back as JSON
Payload(r) == json_loads(Response(r).body)

Keys(d) == {d.o[i].k : i \in 1..Len(d.o)}

Field(d, k) == Lookup(d.o, T(k))

EventField(e, k) == IF HasKey(e.o, T(k)) THEN Lookup(e.o, T(k)) ELSE Absent

NoText == [has |-> FALSE]

\* the text the body is after the optional base64 decoding, if it is text
Carried(e) ==
    LET given == EventField(e, "body")
        b == IF given = Absent THEN EmptyObjectText ELSE given
        encoded == EventField(e, "isBase64Encoded") = PyBool(TRUE)
    IN
    IF b.kind # "doc" THEN NoText
    ELSE IF ~encoded THEN [has |-> TRUE, text |-> b.text]
    ELSE IF b.b64.r = "bytes" /\ b.b64.utf8 THEN [has |-> TRUE, text |-> b.b64.text]
    ELSE NoText

CarriesOneOf(e, texts) == Carried(e).has /\ Carried(e).text \in texts

\* MalformedInput: the body cannot be decoded, or is no JSON, or is JSON
\* but no object
Undecodable(e) ==
    /\ EventField(e, "body") # Absent
    /\ EventField(e, "body").kind = "doc"
    /\ ~Carried(e).has

MalformedTexts == NotJsonTexts \cup NonObjectTexts

IsMalformed(e) ==
    \/ Undecodable(e)
    \/ CarriesOneOf(e, MalformedTexts)

\* EmptyMessage: the message is absent, blank or only whitespace
EmptyMessageTexts == NoMessageTexts \cup {MessageText(m) : m \in BlankMessages}

IsEmptyMessage(e) == CarriesOneOf(e, EmptyMessageTexts)

\* MessageTooLong: the trimmed message is longer than 1000
TooLongTexts == {MessageText(m) : m \in LongMessages}

IsTooLong(e) == CarriesOneOf(e, TooLongTexts)

\* the message is `core` with whitespace around it
CarriesCore(e, core) ==
    CarriesOneOf(e, {MessageText(Pad(l, core, t)) : l \in Pads, t \in Pads})

ValidTexts == {MessageText(m) : m \in ValidMessages}

IsValid(e) == CarriesOneOf(e, ValidTexts)

Surrounded(s) == s # <<>> /\ (s[1].c \in Whitespace \/ s[Len(s)].c \in Whitespace)

\* C1: the agent is invoked only after parse_request_body and
\* validate_message have both succeeded, with a non-empty str of at most
\* 1000 characters and no whitespace around it; a request whose body is
\* malformed or whose message is absent, blank or too long never reaches it.
C1_AgentOnlyAfterValidation ==
    \A r \in Requests :
        /\ agent_arg[r] # Unset =>
              /\ locals[r].body # Unset
              /\ locals[r].message # Unset
              /\ agent_arg[r].kind = "str"
              /\ len(agent_arg[r].s) >= 1
              /\ len(agent_arg[r].s) <= 1000
              /\ ~Surrounded(agent_arg[r].s)
        /\ (pc[r] # "idle"
            /\ (IsMalformed(event[r]) \/ IsEmptyMessage(event[r]) \/ IsTooLong(event[r])))
           => agent_arg[r] = Unset /\ pc[r] # "invoke"

\* the agent is invoked with the 1000 characters of a padded message
C1_Witness ==
    \E r \in Requests :
        /\ pc[r] = "invoke"
        /\ CarriesOneOf(event[r], {MessageText(Pad(1, Run("a", 1000), 1))})
        /\ agent_arg[r] = PyStr(Run("a", 1000))

ErrorResponseShape(payload) ==
    /\ Keys(payload) = {T("success"), T("error")}
    /\ Field(payload, "success") = PyBool(FALSE)
    /\ Field(payload, "error").kind = "str"

SuccessResponseShape(payload) ==
    /\ Keys(payload) = {T("success"), T("message"), T("timestamp"), T("user")}
    /\ Field(payload, "success") = PyBool(TRUE)
    /\ Field(payload, "message").kind = "str"
    /\ Field(payload, "timestamp").kind = "num"

\* C4: every invocation of lambda_handler can go on until it has returned,
\* returns exactly one response and raises nothing to its caller; the
\* response has status 200, 400 or 500, and its body is success=true with
\* message, timestamp and user exactly when the status is 200, success=false
\* with an error otherwise.
C4_ExactlyOneResponse ==
    \A r \in Requests :
        /\ ~escaped[r]
        /\ Len(responses[r]) = (IF Done(r) THEN 1 ELSE 0)
        /\ pc[r] = "extract" => ENABLED ExtractUser(r)
        /\ pc[r] = "parse" => ENABLED ParseBody(r)
        /\ pc[r] = "validate" => ENABLED Validate(r)
        /\ pc[r] = "invoke" =>
              /\ ENABLED AgentReturn(r, AgentResults, Clock)
              /\ ENABLED AgentRaise(r, AgentFailures)
        /\ Done(r) =>
              /\ Response(r).statusCode \in {200, 400, 500}
              /\ Payload(r).ok
              /\ IsDict(Payload(r).val)
              /\ IF Response(r).statusCode = 200
                 THEN SuccessResponseShape(Payload(r).val)
                 ELSE ErrorResponseShape(Payload(r).val)

\* an invocation whose identity extraction raised has returned a response
C4_Witness ==
    \E r \in Requests :
        /\ Done(r)
        /\ raised[r] # Unset
        /\ raised[r].by = "extract_user_info"
        /\ Response(r).statusCode = 500

\* the cognito:username claim of the event, "Unknown" when it is missing
ExpectedUser(e) ==
    LET rc == EventField(e, "requestContext")
        auth == IF rc = Absent THEN Absent ELSE EventField(rc, "authorizer")
        claims == IF auth = Absent THEN Absent ELSE EventField(auth, "claims")
        name == IF claims = Absent THEN Absent ELSE EventField(claims, "cognito:username")
    IN
    IF name = Absent THEN PyStr(T("Unknown")) ELSE name

\* C5: when the message is valid and the agent call returns, the response
\* is 200 with success true, its message is the text of the agent's result
\* as it is, and its user is the cognito:username claim of the event
\* ("Unknown" when the claim is missing).
C5_SuccessResponse ==
    \A r \in Requests :
        (Done(r) /\ locals[r].response_message # Unset) =>
            /\ IsValid(event[r])
            /\ Response(r).statusCode = 200
            /\ Field(Payload(r).val, "success") = PyBool(TRUE)
            /\ Field(Payload(r).val, "message") = PyStr(locals[r].response_message.text)
            /\ Field(Payload(r).val, "user") = ExpectedUser(event[r])

\* a successful response to bob carrying an answer with whitespace around it
C5_Witness ==
    \E r \in Requests :
        /\ Done(r)
        /\ locals[r].response_message # Unset
        /\ Surrounded(locals[r].response_message.text)
        /\ Field(Payload(r).val, "user") = PyStr(T("bob"))

MessageField(body) ==
    IF HasKey(body.o, T("message")) THEN Lookup(body.o, T("message")) ELSE Absent

RaisedBy(r, by, type, msg) ==
    raised[r] = [by |-> by, exc |-> [type |-> type, msg |-> T(msg)]]

\* C6: validate_message decides on the trimmed message: absent, blank or
\* whitespace-only fails with "Message cannot be empty"; longer than 1000
\* once trimmed fails with the too-long error; 1 to 1000 once trimmed
\* succeeds and gives the trimmed message, whatever the untrimmed length.
C6_ValidateMessage ==
    \A r \in Requests :
        (pc[r] \in {"invoke", "done"} /\ locals[r].body # Unset /\ IsDict(locals[r].body)) =>
            LET m == MessageField(locals[r].body) IN
            /\ (m = Absent \/ (m.kind = "str" /\ m.s \in BlankMessages)) =>
                   RaisedBy(r, "validate_message", "ValueError", "Message cannot be empty")
            /\ (m.kind = "str" /\ m.s \in LongMessages) =>
                   RaisedBy(r, "validate_message", "ValueError",
                            "Message too long (max 1000 characters)")
            /\ \A core \in ValidCores, l \in Pads, t \in Pads :
                   m = PyStr(Pad(l, core, t)) =>
                       /\ locals[r].message = PyStr(core)
                       /\ (raised[r] = Unset \/ raised[r].by # "validate_message")

\* a message of 1002 characters, 1000 once trimmed, was accepted
C6_Witness ==
    \E r \in Requests :
        /\ pc[r] = "invoke"
        /\ MessageField(locals[r].body) = PyStr(Pad(1, Run("a", 1000), 1))
        /\ locals[r].message = PyStr(Run("a", 1000))

\* C2: whatever the agent call raises, the response is 500 with the body
\* {success: false, error: "Internal server error"}, and the text of the
\* exception is not in it.
C2_AgentFailureIsGeneric500 ==
    \A r \in Requests :
        (Done(r) /\ raised[r] # Unset /\ raised[r].by = "agent") =>
            /\ Response(r).statusCode = 500
            /\ Payload(r).val = ErrorBody(T("Internal server error"))
            /\ Field(Payload(r).val, "error") # PyStr(raised[r].exc.msg)

\* C3: a request whose validation fails (MalformedInput, EmptyMessage,
\* MessageTooLong) ends in 400 with success false and the validation
\* message, never in 200 or 500.
C3_ValidationFailureIs400 ==
    \A r \in Requests :
        (/\ Done(r)
         /\ locals[r].user_info # Unset
         /\ (IsMalformed(event[r]) \/ IsEmptyMessage(event[r]) \/ IsTooLong(event[r]))) =>
            /\ Response(r).statusCode = 400
            /\ Field(Payload(r).val, "success") = PyBool(FALSE)
            /\ IsEmptyMessage(event[r]) =>
                  Field(Payload(r).val, "error") = PyStr(T("Message cannot be empty"))
            /\ IsTooLong(event[r]) =>
                  Field(Payload(r).val, "error")
                      = PyStr(T("Message too long (max 1000 characters)"))

\* a claim of the event (Absent when any part on the way to it is missing
\* or null)
ClaimOf(e, name) ==
    LET rc == EventField(e, "requestContext")
        auth == IF IsDict(rc) THEN EventField(rc, "authorizer") ELSE Absent
        claims == IF IsDict(auth) THEN EventField(auth, "claims") ELSE Absent
    IN
    IF IsDict(claims) THEN EventField(claims, name) ELSE Absent

OrDefault(v, default) == IF v = Absent THEN PyStr(T(default)) ELSE v

\* C7: extract_user_info never fails, whatever part of requestContext,
\* authorizer or claims is missing: each missing claim takes its default,
\* and identity extraction alone never ends a request in an error.
C7_ExtractNeverFails ==
    \A r \in Requests :
        (pc[r] \notin {"idle", "extract"}) =>
            /\ raised[r] = Unset \/ raised[r].by # "extract_user_info"
            /\ locals[r].user_info # Unset
            /\ Field(locals[r].user_info, "username")
                  = OrDefault(ClaimOf(event[r], "cognito:username"), "Unknown")
            /\ Field(locals[r].user_info, "email")
                  = OrDefault(ClaimOf(event[r], "email"), "unknown@example.com")
            /\ Field(locals[r].user_info, "sub")
                  = OrDefault(ClaimOf(event[r], "sub"), "unknown-sub")

\* the text of each section of the inputs
SectionText(securite) ==
    CASE securite = Section(<<>>) -> <<>>
      [] securite = Section(<<T("Vigilance renforcee")>>) -> T("Vigilance renforcee")
      [] securite = Section(<<Concat(Run(" ", 1), T("Interdit")), Run("\n", 1),
                              T("Risque faible")>>) ->
            <<[c |-> "Interdit", n |-> 1], [c |-> "\n", n |-> 1],
              [c |-> "Risque faible", n |-> 1]>>

TransportFailed(f) == f.remote.kind = "error"

StatusIn(f, lo, hi) ==
    f.remote.kind = "response" /\ f.remote.status_code >= lo /\ f.remote.status_code <= hi

HasSection(f) == f.remote.kind = "response" /\ f.remote.securite.present

\* what a call gives for the page it was sent
PageResult(f) ==
    IF HasSection(f) THEN Ok(PyStr(SectionText(f.remote.securite))) ELSE Ok(None)

IsFetchFailed(f) == TransportFailed(f) \/ StatusIn(f, 400, 599)

IsNotFound(f) == ~IsFetchFailed(f) /\ ~HasSection(f)

LastLevel(f) == f.log[Len(f.log)].level

\* C9 as stated: what the tool returns when the section is absent differs
\* from what it returns when the retrieval fails.
C9_NotFoundDiffersFromFetchFailed ==
    \A r1 \in Requests, r2 \in Requests :
        (/\ tool_frame[r1] # Unset /\ IsNotFound(tool_frame[r1])
         /\ tool_frame[r2] # Unset /\ IsFetchFailed(tool_frame[r2])) =>
            tool_frame[r1].outcome # tool_frame[r2].outcome

\* C9 amended: the tool returns the same absent value (None) when the
\* section is absent and when the retrieval fails; the two cases differ
\* only in the log, a WARNING line for the first and an ERROR line for the
\* second.
C9_SameValueOtherLogLevel ==
    \A r1 \in Requests, r2 \in Requests :
        (/\ tool_frame[r1] # Unset /\ IsNotFound(tool_frame[r1])
         /\ tool_frame[r2] # Unset /\ IsFetchFailed(tool_frame[r2])) =>
            /\ tool_frame[r1].outcome = Ok(None)
            /\ tool_frame[r2].outcome = tool_frame[r1].outcome
            /\ LastLevel(tool_frame[r1]) = "WARNING"
            /\ LastLevel(tool_frame[r2]) = "ERROR"

\* one agent call has a NotFound answer and another a FetchFailed answer
C9_Witness ==
    \E r1 \in Requests, r2 \in Requests :
        /\ tool_frame[r1] # Unset /\ IsNotFound(tool_frame[r1])
        /\ tool_frame[r2] # Unset /\ IsFetchFailed(tool_frame[r2])

\* the identity of the event's caller
ExpectedUserInfo(e) ==
    PyDict(<<Pair(T("username"), OrDefault(ClaimOf(e, "cognito:username"), "Unknown")),
             Pair(T("email"), OrDefault(ClaimOf(e, "email"), "unknown@example.com")),
             Pair(T("sub"), OrDefault(ClaimOf(e, "sub"), "unknown-sub"))>>)

OwnMessage(r, v) == v.kind = "str" /\ CarriesCore(event[r], v.s)

====
